---- MODULE Spec2Model ----
(***************************************************************************)
(* Model of the two Planetary Computer example notebooks:                  *)
(*   sentinel-1-grd-example.ipynb   (nb = "s1")                            *)
(*   the HREA example notebook      (nb = "hrea")                          *)
(* A notebook is run top to bottom ("Run All"): code cells execute in      *)
(* order, and the first uncaught exception stops the run.                  *)
(***************************************************************************)
EXTENDS Integers, Sequences, FiniteSets, TLC

VARIABLES
    nb,        \* which notebook this execution runs
    pc,        \* number of the next code cell (its position among code cells)
    status,    \* "ok" while running, "failed" after an uncaught exception, "done"
    cat,       \* the records held by the remote STAC catalog service, in serving order
    ns,        \* the kernel's global namespace: name -> value, for bound names only
    born,      \* name -> cell that last bound it
    uses,      \* {<<name, cell>>}: raster arrays read by a cell
    log,       \* sequence of the steps performed, in order
    opened,    \* sequence of [cell, by, href]: every attempt to open an asset href for reading
    shown,     \* sequence of what has been displayed (images, plots)
    workers,   \* size of the thread pool dask's default scheduler uses on this machine
    tasks      \* chunk tasks of the dask graph built in HREA cell d033e014

vars == <<nb, pc, status, cat, ns, born, uses, log, opened, shown, workers, tasks>>

----------------------------------------------------------------------------
(* Bounds *)
MaxItems == 2      \* number of records the catalog service holds
MaxWorkers == 2    \* largest thread pool considered
MaxDim == 3        \* largest width/height (in pixels, and of a block) of an HREA file
OvH == 2           \* height in pixels of the overview the Sentinel-1 notebook reads
OvW == 2           \* width in pixels of that overview

----------------------------------------------------------------------------
(* Floating point values of pixel arithmetic, as exact rationals plus the  *)
(* IEEE specials that numpy division produces.                             *)

RECURSIVE GCD(_, _)
GCD(a, b) == IF b = 0 THEN a ELSE GCD(b, a % b)

Num(n, d) == LET g == GCD(n, d) IN [k |-> "num", n |-> n \div g, d |-> d \div g]
NaN == [k |-> "nan", n |-> 0, d |-> 1]
Inf == [k |-> "inf", n |-> 1, d |-> 1]
Zero == [k |-> "num", n |-> 0, d |-> 1]
One == [k |-> "num", n |-> 1, d |-> 1]

IsPos(v) == v.k = "inf" \/ (v.k = "num" /\ v.n > 0)

\* numpy true division of non-negative floats: x/0 = inf, 0/0 = nan
Div(a, b) ==
    IF a.k = "nan" \/ b.k = "nan" THEN NaN
    ELSE IF a.k = "inf" THEN (IF b.k = "inf" THEN NaN ELSE Inf)
    ELSE IF b.k = "inf" THEN Zero
    ELSE IF b.n = 0 THEN (IF a.n = 0 THEN NaN ELSE Inf)
    ELSE IF a.n = 0 THEN Zero
    ELSE Num(a.n * b.d, a.d * b.n)

\* .clip(0, 1): NaN stays NaN
Clip01(v) ==
    IF v.k = "nan" THEN NaN
    ELSE IF v.k = "inf" THEN One
    ELSE IF v.n < 0 THEN Zero
    ELSE IF v.n > v.d THEN One
    ELSE v

\* a variant of the mask that keeps zeros: .where(lambda x: x >= 0)
WherePos_NonNegative(v) == IF v.k # "nan" THEN v ELSE NaN

\* .where(lambda x: x > 0): values failing the test become NaN
WherePos(v) == IF IsPos(v) THEN v ELSE NaN

----------------------------------------------------------------------------
(* Dates and STAC datetime intervals *)

DateLE(a, b) ==
    \/ a[1] < b[1]
    \/ a[1] = b[1] /\ a[2] < b[2]
    \/ a[1] = b[1] /\ a[2] = b[2] /\ a[3] <= b[3]

\* a datetime parameter "start/end" (a single day is start = end)
InInterval(d, iv) == DateLE(iv.start, d) /\ DateLE(d, iv.stop)

----------------------------------------------------------------------------
(* Hrefs and signing *)

Href(host, path) == [host |-> host, path |-> path, sas |-> FALSE]

\* a variant that puts the token on every href, also outside Blob Storage
SignHref_All(h) == [h EXCEPT !.sas = TRUE]

\* planetary_computer.sign_inplace: appends a SAS token to Blob Storage hrefs
SignHref(h) == IF h.host = "blob" THEN [h EXCEPT !.sas = TRUE] ELSE h

SignAsset(a) == [a EXCEPT !.href = SignHref(a.href)]

sign_inplace(item) ==
    [item EXCEPT !.assets = [k \in DOMAIN item.assets |-> SignAsset(item.assets[k])]]

Asset(host, path, roles) == [href |-> Href(host, path), roles |-> roles]

----------------------------------------------------------------------------
(* Small sequence helpers *)

RECURSIVE SelectSeq2(_, _)
SelectSeq2(s, keep) ==
    IF s = <<>> THEN <<>>
    ELSE IF Head(s) \in keep THEN <<Head(s)>> \o SelectSeq2(Tail(s), keep)
    ELSE SelectSeq2(Tail(s), keep)

Range(s) == {s[i] : i \in 1..Len(s)}

\* sequences without repetition, of length at most n, over the set S
RECURSIVE DistinctSeqs(_, _)
DistinctSeqs(S, n) ==
    IF n = 0 THEN {<<>>}
    ELSE LET shorter == DistinctSeqs(S, n - 1)
             ext(t) == {Append(t, x) : x \in S \ Range(t)}
         IN shorter \cup UNION {ext(t) : t \in {u \in shorter : Len(u) = n - 1}}

Ev(cell, op, what) == [cell |-> cell, op |-> op, what |-> what]

----------------------------------------------------------------------------
(* The remote catalog service.  Coordinates are degrees * 10^4.            *)

Props(orbit, mode, pols) ==
    ("sat:orbit_state" :> orbit) @@ ("sar:instrument_mode" :> mode)
        @@ ("sar:polarizations" :> pols)

S1Assets(keys, id) ==
    [k \in keys |-> IF k = "rendered_preview"
                    THEN Asset("api", <<id, k>>, {"overview"})
                    ELSE Asset("blob", <<id, k>>, {"data"})]

S1Item(id, date, box, orbit, mode, pols, keys) ==
    [id |-> id, collection |-> "sentinel-1-grd", datetime |-> date, bbox |-> box,
     properties |-> Props(orbit, mode, pols), assets |-> S1Assets(keys, id)]

Redmond == <<-1230000, 470000, -1210000, 480000>>
Vietnam == <<1050000, 100000, 1060000, 110000>>
VVVH == {"vv", "vh", "rendered_preview"}

\* records the sentinel-1-grd collection may hold
S1Universe ==
    { S1Item(<<"S1B", "IW", "20211222">>, <<2021, 12, 22>>, Redmond, "descending",
             "IW", <<"VV", "VH">>, VVVH),
      S1Item(<<"S1A", "IW", "20210105">>, <<2021, 1, 5>>, Redmond, "ascending",
             "IW", <<"VV", "VH">>, VVVH),
      S1Item(<<"S1A", "IW", "20201231">>, <<2020, 12, 31>>, Redmond, "descending",
             "IW", <<"VV", "VH">>, VVVH),
      S1Item(<<"S1A", "EW", "20210301">>, <<2021, 3, 1>>, Redmond, "ascending",
             "EW", <<"HH", "HV">>, {"hh", "hv", "rendered_preview"}),
      S1Item(<<"S1A", "S3", "20220806">>, <<2022, 8, 6>>, Vietnam, "ascending",
             "SM", <<"VV", "VH">>, VVVH),
      S1Item(<<"S1A", "S3", "20210210">>, <<2021, 2, 10>>, Redmond, "descending",
             "SM", <<"VV", "VH">>, {"vv", "vh"}) }

HreaAssets(id) ==
    [k \in {"lightscore", "light-composite", "night-proportion", "estimated-brightness"}
        |-> Asset("blob", <<id, k>>, {"data"})]

HreaItem(id, date, box, keys) ==
    [id |-> id, collection |-> "hrea", datetime |-> date, bbox |-> box,
     properties |-> Props("n/a", "n/a", <<>>),
     assets |-> [k \in keys |-> HreaAssets(id)[k]]]

DjiboutiBox == <<417000, 109000, 435000, 128000>>
EthiopiaBox == <<330000, 34000, 480000, 149000>>
KenyaBox == <<339000, -47000, 419000, 55000>>
HreaKeys == {"lightscore", "light-composite", "night-proportion", "estimated-brightness"}

\* records the hrea collection may hold; ids are the pieces of "HREA_<country>_<year>..."
HreaUniverse ==
    { HreaItem(<<"HREA", "Djibouti", "2019">>, <<2019, 12, 31>>, DjiboutiBox, HreaKeys),
      HreaItem(<<"HREA", "Djibouti", "2018">>, <<2018, 12, 31>>, DjiboutiBox, HreaKeys),
      HreaItem(<<"HREA", "Djibouti", "2019", "v2">>, <<2019, 12, 31>>, DjiboutiBox,
               HreaKeys \ {"light-composite"}),
      HreaItem(<<"HREA", "Ethiopia", "2019">>, <<2019, 12, 31>>, EthiopiaBox, HreaKeys),
      HreaItem(<<"HREA", "Kenya", "2019">>, <<2019, 12, 31>>, KenyaBox, HreaKeys),
      HreaItem(<<"HREA", "Djibouti", "2011">>, <<2011, 12, 31>>, DjiboutiBox, HreaKeys) }

Universe(n) == IF n = "s1" THEN S1Universe ELSE HreaUniverse

BoxesIntersect(a, b) == a[1] <= b[3] /\ b[1] <= a[3] /\ a[2] <= b[4] /\ b[2] <= a[4]
BoxHasPoint(a, p) == a[1] <= p[1] /\ p[1] <= a[3] /\ a[2] <= p[2] /\ p[2] <= a[4]

AnyTime == [start |-> <<0, 1, 1>>, stop |-> <<9999, 12, 31>>]

\* the parameters of catalog.search(...) that the notebooks use; a parameter
\* that is not passed is <<>> (area, query) or AnyTime
Query(collections, bbox, intersects, datetime, query) ==
    [collections |-> collections, bbox |-> bbox, intersects |-> intersects,
     datetime |-> datetime, query |-> query]

Matches(item, q) ==
    /\ item.collection \in q.collections
    /\ q.bbox # <<>> => BoxesIntersect(item.bbox, q.bbox)
    /\ q.intersects # <<>> => BoxHasPoint(item.bbox, q.intersects)
    /\ InInterval(item.datetime, q.datetime)
    /\ \A i \in 1..Len(q.query) : item.properties[q.query[i][1]] = q.query[i][2]

\* what the STAC API answers to a search: the matching records, as stored
Served(q) == SelectSeq2(cat, {x \in Range(cat) : Matches(x, q)})

\* pystac_client applies the client's modifier to every item a search yields
ApplyModifier(client, item) ==
    IF client.modifier = "sign_inplace" THEN sign_inplace(item) ELSE item

\* ItemSearch.item_collection() / .items() / .get_items()
item_collection(client, q) == [i \in 1..Len(Served(q)) |-> ApplyModifier(client, Served(q)[i])]

\* a variant that opens the client without passing the modifier on
ClientOpen_NoModifier(url, modifier) == [url |-> url, modifier |-> "none"]

\* pystac_client.Client.open(url, modifier=...)
ClientOpen(url, modifier) == [url |-> url, modifier |-> modifier]

\* "Djibouti" in x.id
IdContains(id, word) == \E i \in 1..Len(id) : id[i] = word

\* Item.to_dict(): the GeoJSON Feature dictionary of an item
to_dict(item) ==
    [type |-> "Feature", id |-> item.id, collection |-> item.collection,
     bbox |-> item.bbox,
     properties |-> ("datetime" :> item.datetime) @@ item.properties,
     assets |-> [k \in DOMAIN item.assets |->
                    [href |-> item.assets[k].href, roles |-> item.assets[k].roles]]]

----------------------------------------------------------------------------
(* Raster arrays.  A 2-D array is a function from <<row, col>> to a value. *)

Grid(h, w) == (1..h) \X (1..w)

Pos == Grid(OvH, OvW)

\* raw uint16 digital numbers a GRD overview may hold
VVPixels == {0, 300}
VHPixels == {0, 54}

\* a wider range of digital numbers: values that scale to exactly 1 (600, 270),
\* above 1 (6000, 2700) and to a very small or very large ratio (1)
VVWide == {0, 1, 300, 600, 6000}
VHWide == {0, 1, 54, 270, 2700}

\* the pixels of one band of a scene: a target at one place on a background
Scene(hot, fg, bg) == [p \in Pos |-> IF p = hot THEN fg ELSE bg]

\* .astype(float).squeeze() of the (1, y, x) array that open_rasterio returns
AsFloat(file) == [p \in DOMAIN file |-> Num(file[p], 1)]

ScalarDiv(a, c) == [p \in DOMAIN a |-> Div(a[p], Num(c, 1))]
ArrayDiv(a, b) == [p \in DOMAIN a |-> Div(a[p], b[p])]

\* xr.concat([r, g, b], dim="band"): band k of the result is the k-th array
Concat(arrays) == arrays

ClipAll(d) == [k \in DOMAIN d |-> [p \in DOMAIN d[k] |-> Clip01(d[k][p])]]
WhereAll(d) == [k \in DOMAIN d |-> [p \in DOMAIN d[k] |-> WherePos(d[k][p])]]

\* np.flip(data, axis=(1, 2)): reverse the y axis and the x axis of every band
Flip(d) == [k \in DOMAIN d |-> [p \in Pos |-> d[k][<<OvH + 1 - p[1], OvW + 1 - p[2]>>]]]

\* .ravel(): the values in row-major order
Ravel(a) == [i \in 1..(OvH * OvW) |-> a[<<((i - 1) \div OvW) + 1, ((i - 1) % OvW) + 1>>]]

\* imshow(rgb="band"): pixel p is drawn with red, green, blue = bands 1, 2, 3
ImshowRGB(d) == [p \in Pos |-> [red |-> d[1][p], green |-> d[2][p], blue |-> d[3][p]]]

----------------------------------------------------------------------------
(* Running a cell *)

NumCells(n) == IF n = "s1" THEN 13 ELSE 10

Empty == [n \in {} |-> 0]

\* a variant of Step that swallows the exception and runs the cell again
Step_Retry(cell, binds, evs, reads, opens, shows, ok) ==
    /\ ns' = binds @@ ns
    /\ born' = [n \in DOMAIN binds |-> cell] @@ born
    /\ uses' = uses \cup {<<n, cell>> : n \in reads}
    /\ log' = log \o evs
    /\ opened' = opened \o opens
    /\ shown' = shown \o shows
    /\ pc' = IF ok THEN pc + 1 ELSE pc
    /\ status' = IF ok /\ cell = NumCells(nb) THEN "done" ELSE "ok"
    /\ UNCHANGED <<nb, cat, workers, tasks>>

\* The effects of one code cell.  ok = FALSE: a statement raised; the effects
\* are those of the statements before it, and the run stops.
Step(cell, binds, evs, reads, opens, shows, ok) ==
    /\ ns' = binds @@ ns
    /\ born' = [n \in DOMAIN binds |-> cell] @@ born
    /\ uses' = uses \cup {<<n, cell>> : n \in reads}
    /\ log' = log \o evs
    /\ opened' = opened \o opens
    /\ shown' = shown \o shows
    /\ pc' = IF ok THEN pc + 1 ELSE pc
    /\ status' = IF ~ok THEN "failed" ELSE IF cell = NumCells(nb) THEN "done" ELSE "ok"
    /\ UNCHANGED <<nb, cat, workers, tasks>>

At(n, cell) == nb = n /\ status = "ok" /\ pc = cell

Raise(cell, exc) == Ev(cell, "raise", exc)
Show(cell, what, image) == [cell |-> cell, what |-> what, image |-> image]
Opened(cell, by, href) == [cell |-> cell, by |-> by, href |-> href]

PC_URL == "https://planetarycomputer.microsoft.com/api/stac/v1"

----------------------------------------------------------------------------
(* sentinel-1-grd-example.ipynb *)

bbox_of_interest == <<-1222751, 475469, -1219613, 477458>>
time_of_interest == [start |-> <<2021, 1, 1>>, stop |-> <<2021, 12, 31>>]

\* cell 89c47da8: imports
S1_Imports ==
    /\ At("s1", 1)
    /\ Step(1, Empty, <<Ev(1, "import", "libraries")>>, {}, <<>>, <<>>, TRUE)

\* cell faeb1ddb: catalog = pystac_client.Client.open(..., modifier=sign_inplace)
S1_OpenCatalog ==
    /\ At("s1", 2)
    /\ \E net \in BOOLEAN :
        IF net
        THEN Step(2, "catalog" :> ClientOpen(PC_URL, "sign_inplace"),
                  <<Ev(2, "configure", "catalog")>>, {}, <<>>, <<>>, TRUE)
        ELSE Step(2, Empty, <<Raise(2, "APIError")>>, {}, <<>>, <<>>, FALSE)

S1_Query1 ==
    Query({"sentinel-1-grd"}, bbox_of_interest, <<>>, time_of_interest, <<>>)

\* cell 8bf4c4ca: search over the bounding box and time of interest
S1_Search ==
    /\ At("s1", 3)
    /\ LET pre == ("bbox_of_interest" :> bbox_of_interest)
                    @@ ("time_of_interest" :> time_of_interest)
                    @@ ("search" :> S1_Query1)
       IN \E net \in BOOLEAN :
            IF net
            THEN Step(3, ("items" :> item_collection(ns["catalog"], S1_Query1)) @@ pre,
                      <<Ev(3, "search", "items"), Ev(3, "inspect", "len(items)")>>,
                      {}, <<>>, <<>>, TRUE)
            ELSE Step(3, pre, <<Raise(3, "APIError")>>, {}, <<>>, <<>>, FALSE)

\* cell 7dde13da: item = items[0]; Image(url=item.assets["rendered_preview"].href)
S1_Preview ==
    /\ At("s1", 4)
    /\ LET items == ns["items"] IN
        IF Len(items) = 0
        THEN Step(4, Empty, <<Raise(4, "IndexError")>>, {}, <<>>, <<>>, FALSE)
        ELSE LET item == items[1]
                 sel == <<Ev(4, "select", "item")>>
             IN IF "rendered_preview" \notin DOMAIN item.assets
                THEN Step(4, "item" :> item, sel \o <<Raise(4, "KeyError")>>,
                          {}, <<>>, <<>>, FALSE)
                ELSE Step(4, "item" :> item, sel \o <<Ev(4, "render", "preview")>>, {}, <<>>,
                          <<Show(4, "Image", item.assets["rendered_preview"].href)>>, TRUE)

\* cell 991f2ebd: table of the item's properties
S1_Table ==
    /\ At("s1", 5)
    /\ Step(5, "table" :> ns["item"].properties, <<Ev(5, "inspect", "item.properties")>>,
            {}, <<>>, <<Show(5, "table", ns["item"].properties)>>, TRUE)

\* cell bf8a0765: item.properties["sar:polarizations"]
S1_Polarizations ==
    /\ At("s1", 6)
    /\ Step(6, Empty, <<Ev(6, "inspect", "sar:polarizations")>>, {}, <<>>,
            <<Show(6, "value", ns["item"].properties["sar:polarizations"])>>, TRUE)

\* cell 1d7256ff: vv and vh = rioxarray.open_rasterio(href, overview_level=2),
\* on assets whose digital numbers are drawn from VV and VH
S1_OpenBandsFrom(VV, VH) ==
    /\ At("s1", 7)
    /\ LET item == ns["item"]
           hvv == item.assets["vv"].href
           hvh == item.assets["vh"].href
           evv == <<Ev(7, "open", "vv"), Ev(7, "transform", "vv")>>
           evh == <<Ev(7, "open", "vh"), Ev(7, "transform", "vh")>>
       IN IF "vv" \notin DOMAIN item.assets
          THEN Step(7, Empty, <<Raise(7, "KeyError")>>, {}, <<>>, <<>>, FALSE)
          ELSE
            \/ Step(7, Empty, <<Raise(7, "RasterioIOError")>>, {},
                    <<Opened(7, "rioxarray.open_rasterio", hvv)>>, <<>>, FALSE)
            \/ \E hot \in Pos, fg \in VV, bg \in VV :
                LET bvv == "vv" :> AsFloat(Scene(hot, fg, bg))
                    ovv == <<Opened(7, "rioxarray.open_rasterio", hvv)>>
                IN IF "vh" \notin DOMAIN item.assets
                   THEN Step(7, bvv, evv \o <<Raise(7, "KeyError")>>, {}, ovv, <<>>, FALSE)
                   ELSE
                     \/ Step(7, bvv, evv \o <<Raise(7, "RasterioIOError")>>, {},
                             ovv \o <<Opened(7, "rioxarray.open_rasterio", hvh)>>,
                             <<>>, FALSE)
                     \/ \E fg2 \in VH, bg2 \in VH :
                          Step(7, ("vh" :> AsFloat(Scene(hot, fg2, bg2))) @@ bvv,
                               evv \o evh, {},
                               ovv \o <<Opened(7, "rioxarray.open_rasterio", hvh)>>,
                               <<>>, TRUE)

S1_OpenBands == S1_OpenBandsFrom(VVPixels, VHPixels)

\* the same cell on scenes with the wider range of digital numbers
S1_OpenBandsWide == S1_OpenBandsFrom(VVWide, VHWide)

\* a variant of cell a6e0e59f that releases the array once it has been used (del vv)
S1_Distribution_Del ==
    /\ At("s1", 8)
    /\ LET raw == Ravel([p \in Pos |-> WherePos(ns["vv"][p])])
           df == SelectSeq(raw, LAMBDA v : v.k # "nan")
           kept == ("raw" :> raw) @@ ("df" :> df) @@ ns
       IN ns' = [n \in DOMAIN kept \ {"vv"} |-> kept[n]]
    /\ born' = ("raw" :> 8) @@ ("df" :> 8) @@ born
    /\ uses' = uses \cup {<<"vv", 8>>}
    /\ log' = Append(log, Ev(8, "transform", "vv"))
    /\ pc' = pc + 1
    /\ UNCHANGED <<nb, status, cat, opened, shown, workers, tasks>>

\* cell a6e0e59f: raw = vv.where(x > 0).data.ravel(); df = DataFrame(...).dropna().melt(...)
\* df is kept as its "power" column after dropna(): amplitude and dB are
\* sqrt and log10 of the same rows.
S1_Distribution ==
    /\ At("s1", 8)
    /\ LET raw == Ravel([p \in Pos |-> WherePos(ns["vv"][p])])
           df == SelectSeq(raw, LAMBDA v : v.k # "nan")
       IN Step(8, ("raw" :> raw) @@ ("df" :> df), <<Ev(8, "transform", "vv")>>,
               {"vv"}, <<>>, <<>>, TRUE)

\* cell d63172a1: g = sns.FacetGrid(df, ...); g.map(sns.histplot, ...)
S1_Histograms ==
    /\ At("s1", 9)
    /\ Step(9, "g" :> "FacetGrid", <<Ev(9, "render", "df")>>, {}, <<>>,
            <<Show(9, "histplot", ns["df"])>>, TRUE)

\* r = vv / 600; g = vh / 270; b = (vv / vh) / 9
RedBand(vv, vh) == ScalarDiv(vv, 600)
GreenBand(vv, vh) == ScalarDiv(vh, 270)
BlueBand(vv, vh) == ScalarDiv(ArrayDiv(vv, vh), 9)

\* a variant that concatenates the ratio as the second band
Composite_Swapped(vv, vh) ==
    WhereAll(ClipAll(Concat(<<RedBand(vv, vh), BlueBand(vv, vh), GreenBand(vv, vh)>>)))

\* data = xr.concat([r, g, b], dim="band").clip(0, 1).where(lambda x: x > 0)
Composite(vv, vh) ==
    WhereAll(ClipAll(Concat(<<RedBand(vv, vh), GreenBand(vv, vh), BlueBand(vv, vh)>>)))

\* cell 3a3a149f: the false-color composite, drawn with imshow(rgb="band")
S1_Composite ==
    /\ At("s1", 10)
    /\ LET vv == ns["vv"]
           vh == ns["vh"]
           data == Composite(vv, vh)
       IN Step(10, ("r" :> RedBand(vv, vh)) @@ ("g" :> GreenBand(vv, vh))
                     @@ ("b" :> BlueBand(vv, vh)) @@ ("data" :> data)
                     @@ ("img" :> "AxesImage"),
               <<Ev(10, "transform", "vv"), Ev(10, "transform", "vh"),
                 Ev(10, "render", "data")>>,
               {"vv", "vh", "data"}, <<>>, <<Show(10, "imshow", ImshowRGB(data))>>, TRUE)

\* cell 70d13d5e: item.properties["sat:orbit_state"]
S1_OrbitState ==
    /\ At("s1", 11)
    /\ Step(11, Empty, <<Ev(11, "inspect", "sat:orbit_state")>>, {}, <<>>,
            <<Show(11, "value", ns["item"].properties["sat:orbit_state"])>>, TRUE)

\* np.flip(data, axis=(1, 2)).clip(0, 1)
Flipped(data) == ClipAll(Flip(data))

\* cell e9d379c7: img = np.flip(data, axis=(1, 2)).clip(0, 1).plot.imshow(size=12)
S1_Flip ==
    /\ At("s1", 12)
    /\ Step(12, "img" :> "AxesImage",
            <<Ev(12, "transform", "data"), Ev(12, "render", "data")>>,
            {"data"}, <<>>, <<Show(12, "imshow", ImshowRGB(Flipped(ns["data"])))>>, TRUE)

S1_Query2 ==
    Query({"sentinel-1-grd"}, <<>>, <<>>, AnyTime,
          << <<"sar:instrument_mode", "SM">>, <<"sar:polarizations", <<"VV", "VH">> >> >>)

\* cell 2d54b64e: second search; gen = search.items(); item = next(gen); Image(...)
S1_StripmapPreview ==
    /\ At("s1", 13)
    /\ LET pre == "search" :> S1_Query2
           found == item_collection(ns["catalog"], S1_Query2)
           ev == <<Ev(13, "search", "gen")>>
       IN \E net \in BOOLEAN :
            IF ~net
            THEN Step(13, ("gen" :> <<>>) @@ pre, <<Raise(13, "APIError")>>,
                      {}, <<>>, <<>>, FALSE)
            ELSE IF Len(found) = 0
            THEN Step(13, ("gen" :> <<>>) @@ pre, ev \o <<Raise(13, "StopIteration")>>,
                      {}, <<>>, <<>>, FALSE)
            ELSE LET item == found[1]
                     b == ("item" :> item) @@ ("gen" :> Tail(found)) @@ pre
                     sel == ev \o <<Ev(13, "select", "item")>>
                 IN IF "rendered_preview" \notin DOMAIN item.assets
                    THEN Step(13, b, sel \o <<Raise(13, "KeyError")>>, {}, <<>>, <<>>, FALSE)
                    ELSE Step(13, b, sel \o <<Ev(13, "render", "preview")>>, {}, <<>>,
                              <<Show(13, "Image", item.assets["rendered_preview"].href)>>,
                              TRUE)

NextS1 ==
    \/ S1_Imports
    \/ S1_OpenCatalog
    \/ S1_Search
    \/ S1_Preview
    \/ S1_Table
    \/ S1_Polarizations
    \/ S1_OpenBands
    \/ S1_Distribution
    \/ S1_Histograms
    \/ S1_Composite
    \/ S1_OrbitState
    \/ S1_Flip
    \/ S1_StripmapPreview

----------------------------------------------------------------------------
(* The HREA example notebook *)

area_of_interest == <<424841, 117101>>
bounds_latlon == <<423459, 110797, 424042, 111380>>

\* the pixel values of a light-composite file: nightlight radiance by position
HreaPixel(p) == Num(10 * p[1] + p[2], 100)

\* coordinates of pixel centres of an h x w file that covers DjiboutiBox
XCoord(c, w) == DjiboutiBox[1] + ((2 * c - 1) * (DjiboutiBox[3] - DjiboutiBox[1])) \div (2 * w)
YCoord(r, h) == DjiboutiBox[4] - ((2 * r - 1) * (DjiboutiBox[4] - DjiboutiBox[2])) \div (2 * h)

CeilDiv(a, b) == (a + b - 1) \div b
Min(a, b) == IF a <= b THEN a ELSE b

\* rasterio's Window(col_off, row_off, width, height) of block (i, j), 0-based
BlockWindow(i, j, h, w, bh, bw) ==
    [col_off |-> j * bw, row_off |-> i * bh,
     width |-> Min(bw, w - j * bw), height |-> Min(bh, h - i * bh)]

\* list(src.block_windows()): ((i, j), window) for every block, row by row
block_windows(h, w, bh, bw) ==
    LET cols == CeilDiv(w, bw)
        rows == CeilDiv(h, bh)
    IN [n \in 1..(rows * cols) |->
          LET i == (n - 1) \div cols
              j == (n - 1) % cols
          IN << <<i, j>>, BlockWindow(i, j, h, w, bh, bw) >>]

\* Python's s[i] for i >= 0
PyIndex(s, i) == s[i + 1]

\* data_array.rio.isel_window(window): the pixels of the window, with their coordinates
isel_window(a, window) ==
    LET rows == {r \in DOMAIN a.y : r > window.row_off /\ r <= window.row_off + window.height}
        cols == {c \in DOMAIN a.x : c > window.col_off /\ c <= window.col_off + window.width}
    IN [data |-> [p \in rows \X cols |-> a.data[p]],
        x |-> [c \in cols |-> a.x[c]], y |-> [r \in rows |-> a.y[r]]]

\* section.sel(x=slice(x0, x1), y=slice(y1, y0)): the pixels whose coordinates are in the box
Sel(a, box) ==
    LET rows == {r \in DOMAIN a.y : box[2] <= a.y[r] /\ a.y[r] <= box[4]}
        cols == {c \in DOMAIN a.x : box[1] <= a.x[c] /\ a.x[c] <= box[3]}
    IN [data |-> [p \in rows \X cols |-> a.data[p]],
        x |-> [c \in cols |-> a.x[c]], y |-> [r \in rows |-> a.y[r]]]

\* rioxarray.open_rasterio(href) of an h x w file, without its band axis of length 1
DataArray(h, w) ==
    [data |-> [p \in Grid(h, w) |-> HreaPixel(p)],
     x |-> [c \in 1..w |-> XCoord(c, w)], y |-> [r \in 1..h |-> YCoord(r, h)]]

\* cell 7c8c9a42: imports
Hrea_Imports ==
    /\ At("hrea", 1)
    /\ Step(1, Empty, <<Ev(1, "import", "libraries")>>, {}, <<>>, <<>>, TRUE)

\* cell e5198dec: catalog = pystac_client.Client.open(..., modifier=sign_inplace)
Hrea_OpenCatalog ==
    /\ At("hrea", 2)
    /\ \E net \in BOOLEAN :
        IF net
        THEN Step(2, "catalog" :> ClientOpen(PC_URL, "sign_inplace"),
                  <<Ev(2, "configure", "catalog")>>, {}, <<>>, <<>>, TRUE)
        ELSE Step(2, Empty, <<Raise(2, "APIError")>>, {}, <<>>, <<>>, FALSE)

Day2019 == [start |-> <<2019, 12, 31>>, stop |-> <<2019, 12, 31>>]
Span2012_2019 == [start |-> <<2012, 12, 31>>, stop |-> <<2019, 12, 31>>]

Hrea_Query1 == Query({"hrea"}, <<>>, area_of_interest, Day2019, <<>>)
Hrea_Query2 == Query({"hrea"}, <<>>, area_of_interest, Span2012_2019, <<>>)

\* cell 0d76a979: search for 2019-12-31 at the point of interest
Hrea_Search ==
    /\ At("hrea", 3)
    /\ LET pre == ("area_of_interest" :> area_of_interest) @@ ("search" :> Hrea_Query1)
       IN \E net \in BOOLEAN :
            IF net
            THEN Step(3, ("items" :> item_collection(ns["catalog"], Hrea_Query1)) @@ pre,
                      <<Ev(3, "search", "items"), Ev(3, "inspect", "len(items)")>>,
                      {}, <<>>, <<>>, TRUE)
            ELSE Step(3, pre, <<Raise(3, "APIError")>>, {}, <<>>, <<>>, FALSE)

\* [x for x in items if "Djibouti" in x.id]
DjiboutiOnly(items) == SelectSeq(items, LAMBDA x : IdContains(x.id, "Djibouti"))

\* a variant of cell 8daca8f4 that takes the first match: item = [...][0]
Hrea_Select_First ==
    /\ At("hrea", 4)
    /\ LET hits == DjiboutiOnly(ns["items"]) IN
        IF Len(hits) = 0
        THEN Step(4, Empty, <<Raise(4, "IndexError")>>, {}, <<>>, <<>>, FALSE)
        ELSE LET item == hits[1]
                 data_assets == {k \in DOMAIN item.assets : "data" \in item.assets[k].roles}
             IN Step(4, ("item" :> item) @@ ("data_assets" :> data_assets),
                     <<Ev(4, "select", "item"), Ev(4, "inspect", "data_assets")>>,
                     {}, <<>>, <<>>, TRUE)

\* cell 8daca8f4: (item,) = [x for x in items if "Djibouti" in x.id]; list data assets
Hrea_Select ==
    /\ At("hrea", 4)
    /\ LET hits == DjiboutiOnly(ns["items"]) IN
        IF Len(hits) # 1
        THEN Step(4, Empty, <<Raise(4, "ValueError")>>, {}, <<>>, <<>>, FALSE)
        ELSE LET item == hits[1]
                 data_assets == {k \in DOMAIN item.assets : "data" \in item.assets[k].roles}
             IN Step(4, ("item" :> item) @@ ("data_assets" :> data_assets),
                     <<Ev(4, "select", "item"), Ev(4, "inspect", "data_assets")>>,
                     {}, <<>>, <<>>, TRUE)

\* cell 56f0f1f9: data_array = rioxarray.open_rasterio(light_comp_asset.href); show(...)
Hrea_Plot ==
    /\ At("hrea", 5)
    /\ LET item == ns["item"] IN
        IF "light-composite" \notin DOMAIN item.assets
        THEN Step(5, Empty, <<Raise(5, "KeyError")>>, {}, <<>>, <<>>, FALSE)
        ELSE LET asset == item.assets["light-composite"]
                 o == <<Opened(5, "rioxarray.open_rasterio", asset.href)>>
             IN \/ Step(5, "light_comp_asset" :> asset, <<Raise(5, "RasterioIOError")>>,
                        {}, o, <<>>, FALSE)
                \/ \E h \in 1..MaxDim, w \in 1..MaxDim :
                     LET data_array == DataArray(h, w)
                     IN Step(5, ("light_comp_asset" :> asset) @@ ("data_array" :> data_array),
                             <<Ev(5, "open", "data_array"), Ev(5, "render", "data_array")>>,
                             {"data_array"}, o, <<Show(5, "show", data_array)>>, TRUE)

i_window == 2

\* cell 59989159: read one block window of the file and plot it
Hrea_Window ==
    /\ At("hrea", 6)
    /\ LET href == ns["light_comp_asset"].href
           h == Cardinality(DOMAIN ns["data_array"].y)
           w == Cardinality(DOMAIN ns["data_array"].x)
           o == <<Opened(6, "rasterio.open", href)>>
           pre == "i_window" :> i_window
       IN \/ Step(6, pre, <<Raise(6, "RasterioIOError")>>, {}, o, <<>>, FALSE)
          \/ \E bh \in 1..MaxDim, bw \in 1..MaxDim :
               LET windows == block_windows(h, w, bh, bw)
                   b1 == ("windows" :> windows) @@ pre
                   e1 == <<Ev(6, "open", "src"), Ev(6, "inspect", "windows")>>
               IN IF i_window >= Len(windows)
                  THEN Step(6, b1, e1 \o <<Raise(6, "IndexError")>>, {}, o, <<>>, FALSE)
                  ELSE LET window == PyIndex(windows, i_window)[2]
                           section == isel_window(ns["data_array"], window)
                       IN Step(6, ("window" :> window) @@ ("section" :> section) @@ b1,
                               e1 \o <<Ev(6, "transform", "data_array"),
                                       Ev(6, "render", "section")>>,
                               {"data_array", "section"}, o, <<Show(6, "show", section)>>, TRUE)

\* cell 75090aea: plot the region around Dikhil, cut from the section
Hrea_Zoom ==
    /\ At("hrea", 7)
    /\ LET zoom == Sel(ns["section"], bounds_latlon)
       IN Step(7, Empty, <<Ev(7, "transform", "section"), Ev(7, "render", "section")>>,
               {"section"}, <<>>, <<Show(7, "show", zoom)>>, TRUE)

\* a variant of cell 41319df7 that filters the items of the first search again
\* instead of searching the longer time span
Hrea_SearchSeries_Reuse ==
    /\ At("hrea", 8)
    /\ LET hits == DjiboutiOnly(ns["items"])
           items == [i \in 1..Len(hits) |-> to_dict(hits[i])]
       IN Step(8, "items" :> items,
               <<Ev(8, "select", "items"), Ev(8, "inspect", "len(items)")>>,
               {}, <<>>, <<>>, TRUE)

\* cell 41319df7: items = [item.to_dict() for item in search.get_items() if "Djibouti" in item.id]
Hrea_SearchSeries ==
    /\ At("hrea", 8)
    /\ LET pre == "search" :> Hrea_Query2
           hits == DjiboutiOnly(item_collection(ns["catalog"], Hrea_Query2))
           items == [i \in 1..Len(hits) |-> to_dict(hits[i])]
       IN \E net \in BOOLEAN :
            IF net
            THEN Step(8, ("items" :> items) @@ pre,
                      <<Ev(8, "search", "items"), Ev(8, "select", "items"),
                        Ev(8, "inspect", "len(items)")>>, {}, <<>>, <<>>, TRUE)
            ELSE Step(8, pre, <<Raise(8, "APIError")>>, {}, <<>>, <<>>, FALSE)

\* what a chunk task reads for one item of the stack: the 0.9 quantile of the
\* window around Dikhil; an item without the asset contributes NaN and opens nothing
ChunkValue(d) ==
    IF "light-composite" \in DOMAIN d.assets
    THEN Num(d.properties["datetime"][1] - 2000, 10)
    ELSE NaN

Running == {i \in DOMAIN tasks : tasks[i] = "running"}

\* cell d033e014, first part: stackstac.stack(items, ...).squeeze() builds a lazy
\* dask array (one chunk task per item); .compute() hands it to the scheduler
Hrea_StackCompute ==
    /\ At("hrea", 9)
    /\ LET items == ns["items"]
           pre == "bounds_latlon" :> bounds_latlon
       IN IF Len(items) = 0
          THEN /\ Step(9, pre, <<Raise(9, "ValueError")>>, {}, <<>>, <<>>, FALSE)
          ELSE /\ ns' = pre @@ ns
               /\ born' = ("bounds_latlon" :> 9) @@ born
               /\ log' = log \o <<Ev(9, "defer", "stack"), Ev(9, "compute", "stack")>>
               /\ tasks' = [i \in 1..Len(items) |-> "pending"]
               /\ status' = "computing"
               /\ UNCHANGED <<nb, pc, cat, uses, opened, shown, workers>>

\* a worker thread of the pool takes a pending chunk task and opens its asset
Hrea_TaskStart(i) ==
    /\ nb = "hrea" /\ status = "computing"
    /\ tasks[i] = "pending"
    /\ Cardinality(Running) < workers
    /\ tasks' = [tasks EXCEPT ![i] = "running"]
    /\ LET d == ns["items"][i] IN
        IF "light-composite" \in DOMAIN d.assets
        THEN /\ opened' = Append(opened, Opened(9, "stackstac.stack",
                                                 d.assets["light-composite"].href))
             /\ log' = Append(log, Ev(9, "open", "stack"))
        ELSE UNCHANGED <<opened, log>>
    /\ UNCHANGED <<nb, pc, status, cat, ns, born, uses, shown, workers>>

\* a running chunk task ends: with its pixels, or with a read error.  Worker
\* threads cannot be cancelled, so a task also ends after the run has failed.
Hrea_TaskEnd(i) ==
    /\ nb = "hrea" /\ status \in {"computing", "failed"}
    /\ tasks[i] = "running"
    /\ \E good \in BOOLEAN :
         tasks' = [tasks EXCEPT ![i] = IF good \/ "light-composite" \notin
                                                    DOMAIN ns["items"][i].assets
                                         THEN "done" ELSE "error"]
    /\ UNCHANGED <<nb, pc, status, cat, ns, born, uses, log, opened, shown, workers>>

\* .compute() re-raises the first task error in the calling thread
Hrea_ComputeRaise ==
    /\ nb = "hrea" /\ status = "computing"
    /\ \E i \in DOMAIN tasks : tasks[i] = "error"
    /\ status' = "failed"
    /\ log' = Append(log, Raise(9, "RasterioIOError"))
    /\ UNCHANGED <<nb, pc, cat, ns, born, uses, opened, shown, workers, tasks>>

\* a variant of .compute() that returns without waiting for the chunk tasks
Hrea_ComputeReturn_Early ==
    /\ nb = "hrea" /\ status = "computing"
    /\ LET items == ns["items"]
           dikhil == [i \in 1..Len(items) |-> ChunkValue(items[i])]
       IN /\ ns' = ("dikhil" :> dikhil) @@ ns
          /\ born' = ("dikhil" :> 9) @@ born
    /\ log' = Append(log, Ev(9, "transform", "stack"))
    /\ pc' = 10
    /\ status' = "ok"
    /\ UNCHANGED <<nb, cat, uses, opened, shown, workers, tasks>>

\* cell d033e014, last part: .compute() returns the loaded stack once every
\* task is done; dikhil = <stack>.quantile(0.9, dim=["y", "x"])
Hrea_ComputeReturn ==
    /\ nb = "hrea" /\ status = "computing"
    /\ \A i \in DOMAIN tasks : tasks[i] = "done"
    /\ LET items == ns["items"]
           dikhil == [i \in 1..Len(items) |-> ChunkValue(items[i])]
       IN /\ ns' = ("dikhil" :> dikhil) @@ ns
          /\ born' = ("dikhil" :> 9) @@ born
    /\ log' = Append(log, Ev(9, "transform", "stack"))
    /\ pc' = 10
    /\ status' = "ok"
    /\ UNCHANGED <<nb, cat, uses, opened, shown, workers, tasks>>

\* cell 2e89d342: dikhil.plot(ax=ax)
Hrea_PlotSeries ==
    /\ At("hrea", 10)
    /\ Step(10, Empty, <<Ev(10, "render", "dikhil")>>, {"dikhil"}, <<>>,
            <<Show(10, "plot", ns["dikhil"])>>, TRUE)

NextHrea ==
    \/ Hrea_Imports
    \/ Hrea_OpenCatalog
    \/ Hrea_Search
    \/ Hrea_Select
    \/ Hrea_Plot
    \/ Hrea_Window
    \/ Hrea_Zoom
    \/ Hrea_SearchSeries
    \/ Hrea_StackCompute
    \/ \E i \in DOMAIN tasks : Hrea_TaskStart(i)
    \/ \E i \in DOMAIN tasks : Hrea_TaskEnd(i)
    \/ Hrea_ComputeRaise
    \/ Hrea_ComputeReturn
    \/ Hrea_PlotSeries

----------------------------------------------------------------------------

Init ==
    /\ nb \in {"s1", "hrea"}
    /\ pc = 1
    /\ status = "ok"
    /\ cat \in DistinctSeqs(Universe(nb), MaxItems)
    /\ ns = Empty
    /\ born = Empty
    /\ uses = {}
    /\ log = <<>>
    /\ opened = <<>>
    /\ shown = <<>>
    /\ workers \in 1..MaxWorkers
    /\ tasks = Empty

Next == NextS1 \/ NextHrea

Spec == Init /\ [][Next]_vars

\* The Sentinel-1 notebook run against a catalog of at most one item whose
\* band assets hold the wider range of digital numbers.
InitPixels ==
    /\ nb = "s1"
    /\ pc = 1
    /\ status = "ok"
    /\ cat \in DistinctSeqs(S1Universe, 1)
    /\ ns = Empty
    /\ born = Empty
    /\ uses = {}
    /\ log = <<>>
    /\ opened = <<>>
    /\ shown = <<>>
    /\ workers = 1
    /\ tasks = Empty

NextPixels ==
    \/ S1_Imports
    \/ S1_OpenCatalog
    \/ S1_Search
    \/ S1_Preview
    \/ S1_Table
    \/ S1_Polarizations
    \/ S1_OpenBandsWide
    \/ S1_Distribution
    \/ S1_Histograms
    \/ S1_Composite
    \/ S1_OrbitState
    \/ S1_Flip
    \/ S1_StripmapPreview

SpecPixels == InitPixels /\ [][NextPixels]_vars

----------------------------------------------------------------------------
(* Properties *)

Ops(op) == {i \in 1..Len(log) : log[i].op = op}
Last(q) == q[Len(q)]

\* the opened rasters an array is computed from
Source(what) ==
    CASE what = "data" -> {"vv", "vh"}
      [] what = "section" -> {"data_array"}
      [] OTHER -> {what}

\* no raster asset is opened before a search has returned and an item has been
\* selected from its results
OpenAfterSelect ==
    \A i \in Ops("open") :
        \E j \in Ops("search"), k \in Ops("select") : j < k /\ k < i

\* no transform runs before the rasters it works on have been fetched
TransformAfterOpen ==
    \A i \in Ops("transform") :
        \A src \in Source(log[i].what) :
            \E j \in Ops("open") : j < i /\ log[j].what = src

RasterRenders == {i \in Ops("render") : log[i].what # "preview"}

NoSearchAfterRender ==
    \A i \in RasterRenders, j \in Ops("search") : j < i

\* C1 as stated: the steps of an execution form one sequence configure, search,
\* select, fetch, transform, render: assets are opened only after search and
\* selection, transforms run only after the fetch, and no catalog search is
\* issued after a raster has been rendered.
C1_OneLinearSequence ==
    OpenAfterSelect /\ TransformAfterOpen /\ NoSearchAfterRender

\* C1 amended: assets are opened only after a search and a selection, and
\* transforms run only after their rasters were fetched; a complete execution
\* issues exactly two catalog searches, the second one after rasters have been
\* rendered.
C1_TwoSearches ==
    /\ OpenAfterSelect
    /\ TransformAfterOpen
    /\ Cardinality(Ops("search")) <= 2
    /\ status = "done" =>
         /\ Cardinality(Ops("search")) = 2
         /\ \E i \in RasterRenders, j \in Ops("search") : i < j

C1_Witness ==
    /\ status = "done"
    /\ Ops("open") # {} /\ Ops("transform") # {}
    /\ \E i \in RasterRenders, j \in Ops("search") : i < j

\* names that the failing statement of a cell, or a statement after it, would bind
NotBound(n, cell, exc) ==
    IF n = "s1"
    THEN CASE cell = 2 -> {"catalog"}
           [] cell = 3 -> {"items"}
           [] cell = 4 /\ exc = "IndexError" -> {"item"}
           [] cell = 7 -> {"vh"}
           [] cell = 13 /\ exc # "KeyError" -> {"item"}
           [] OTHER -> {}
    ELSE CASE cell = 2 -> {"catalog"}
           [] cell = 3 -> {"items"}
           [] cell = 4 -> {"item", "data_assets"}
           [] cell = 5 -> {"data_array"}
           [] cell = 6 -> {"section"}
           [] cell = 8 -> {"items"}
           [] cell = 9 -> {"dikhil"}
           [] OTHER -> {}

Attempts(q, cell, href) == {i \in 1..Len(q) : q[i].cell = cell /\ q[i].href = href}

C3_SingleThreaded == Cardinality(Running) <= 1

\* C3 amended: cells run one at a time and in order; only inside cell d033e014
\* is work deferred (the lazy stack) and evaluated by .compute() on the worker
\* threads of the scheduler, at most `workers` chunk tasks at once; .compute()
\* returns only when every task is done, so nothing is in progress while
\* another cell runs.
C3_OnlyComputeIsParallel ==
    /\ Cardinality(Running) <= workers
    /\ (Running # {} \/ \E i \in DOMAIN tasks : tasks[i] = "pending") =>
            nb = "hrea" /\ pc = 9 /\ status \in {"computing", "failed"}
    /\ \A i \in Ops("defer") : log[i].cell = 9 /\ nb = "hrea"
    /\ (\E i \in Ops("transform") : log[i].what = "stack") =>
            \A i \in DOMAIN tasks : tasks[i] = "done"

C3_Witness ==
    /\ Cardinality(Running) = 2
    /\ status = "computing"

\* the catalog's record of a held item (ids are unique in a catalog)
Record(id) == CHOOSE r \in Range(cat) : r.id = id

\* the items and item dictionaries the kernel holds
Held ==
    (IF "item" \in DOMAIN ns THEN {ns["item"]} ELSE {})
        \cup (IF "items" \in DOMAIN ns THEN Range(ns["items"]) ELSE {})

SameIdAndProperties(x, r) ==
    /\ x.id = r.id
    /\ \A k \in DOMAIN r.properties : x.properties[k] = r.properties[k]
    /\ DOMAIN x.assets = DOMAIN r.assets

\* C4 as stated: nothing the notebook runs or configures changes an item: what
\* the kernel holds has the id, the properties and the asset hrefs of the
\* catalog's record.
C4_ItemsUntouched ==
    \A x \in Held :
        /\ SameIdAndProperties(x, Record(x.id))
        /\ \A k \in DOMAIN x.assets : x.assets[k].href = Record(x.id).assets[k].href

\* C4 amended: ids and properties are never changed; the configured modifier
\* sign_inplace rewrites the href of every Blob Storage asset once, when the
\* search yields the item (it appends a token to the same location), and no
\* later step changes an href again.
C4_OnlySigned ==
    \A x \in Held :
        LET r == Record(x.id) IN
        /\ SameIdAndProperties(x, r)
        /\ \A k \in DOMAIN x.assets :
            /\ x.assets[k].href.host = r.assets[k].href.host
            /\ x.assets[k].href.path = r.assets[k].href.path
            /\ x.assets[k].href.sas = (r.assets[k].href.host = "blob")
            /\ ~r.assets[k].href.sas

C4_Witness ==
    /\ nb = "hrea" /\ pc = 9
    /\ \E i \in 1..Len(ns["items"]) :
           /\ "light-composite" \in DOMAIN ns["items"][i].assets
           /\ ns["items"][i].assets["light-composite"].href.sas
           /\ ~Record(ns["items"][i].id).assets["light-composite"].href.sas

\* raster arrays of the two notebooks
Arrays == {"vv", "vh", "data", "data_array", "section", "dikhil"}

\* C5 as stated: a raster array is read only by the cell that creates it, and
\* nothing is written to storage.
C5_CellLocalArrays ==
    /\ \A u \in uses : born[u[1]] = u[2]
    /\ Ops("write") = {}

\* C5 amended: a raster array lives in the kernel's namespace from the cell that
\* creates it to the end of the notebook process, and later cells read it
\* (vv, vh, data, data_array, section are read by cells after the one that
\* created them); no step writes an array or other state to storage.
C5_KernelLifetime ==
    /\ \A n \in DOMAIN born : n \in DOMAIN ns
    /\ \A u \in uses : u[1] \in DOMAIN ns /\ born[u[1]] <= u[2]
    /\ (nb = "s1" /\ pc > 12) =>
          {<<"vv", 8>>, <<"vv", 10>>, <<"vh", 10>>, <<"data", 12>>} \subseteq uses
    /\ (nb = "hrea" /\ pc > 7) => {<<"data_array", 6>>, <<"section", 7>>} \subseteq uses
    /\ Ops("write") = {}

C5_Witness ==
    /\ status = "done"
    /\ \E u \in uses : u[1] \in Arrays /\ born[u[1]] < u[2]

\* every asset href of the catalog's records, after signing
SignedCatalogHrefs ==
    UNION {{[host |-> r.assets[k].href.host, path |-> r.assets[k].href.path, sas |-> TRUE] :
                k \in DOMAIN r.assets} : r \in Range(cat)}

\* C6: every href that is opened for reading carries the token of the signing
\* modifier: it is an asset href of an item that a search on the client opened
\* with modifier=sign_inplace returned, also when it comes out of item.to_dict().
C6_OnlySignedOpened ==
    \A i \in 1..Len(opened) :
        /\ opened[i].href.sas
        /\ opened[i].href \in SignedCatalogHrefs
        /\ ns["catalog"].modifier = "sign_inplace"
        /\ Ops("search") # {}

C6_Witness ==
    /\ \E i \in 1..Len(opened) : opened[i].by = "stackstac.stack"
    /\ \E i \in 1..Len(opened) : opened[i].by = "rasterio.open"
    /\ \E i \in 1..Len(opened) : opened[i].by = "rioxarray.open_rasterio"

\* C7: the section read in the "Read a window" cell is the second window of the
\* file, i.e. the second entry of list(src.block_windows()).
C7_SecondWindow ==
    (nb = "hrea" /\ "section" \in DOMAIN ns) =>
        ns["section"] = isel_window(ns["data_array"], ns["windows"][2][2])

InJanuary2021(d) == d[1] = 2021 /\ d[2] = 1

\* C8: the first Sentinel-1 search covers January 2021 only: its datetime range
\* starts on 2021-01-01 and ends by 2021-01-31, so every returned item, and
\* items[0] with them, was acquired in January 2021.
C8_January2021 ==
    (nb = "s1" /\ "items" \in DOMAIN ns) =>
        /\ ns["time_of_interest"].start = <<2021, 1, 1>>
        /\ DateLE(ns["time_of_interest"].stop, <<2021, 1, 31>>)
        /\ \A i \in 1..Len(ns["items"]) : InJanuary2021(ns["items"][i].datetime)
        /\ (born["item"] = 4) => InJanuary2021(ns["item"].datetime)

\* C9: the image of cell e9d379c7 is flipped over both spatial axes when the
\* item's sat:orbit_state is "descending" and is left as it is when the orbit
\* state is "ascending".
C9_FlipByOrbitState ==
    (nb = "s1" /\ pc = 13 /\ status = "ok") =>
        Last(shown).image =
            IF ns["item"].properties["sat:orbit_state"] = "descending"
            THEN ImshowRGB(ClipAll(Flip(ns["data"])))
            ELSE ImshowRGB(ClipAll(ns["data"]))

\* clip(0, 1) and where(x > 0) of one value
Scaled(v) == WherePos(Clip01(v))

RedOf(p) == Scaled(Div(ns["vv"][p], Num(600, 1)))
GreenOf(p) == Scaled(Div(ns["vh"][p], Num(270, 1)))
RatioOf(p) == Scaled(Div(Div(ns["vv"][p], ns["vh"][p]), Num(9, 1)))

Composite10 == shown[CHOOSE i \in 1..Len(shown) : shown[i].cell = 10].image

DjiboutiHits(returned) ==
    {i \in 1..Len(returned) : IdContains(returned[i].id, "Djibouti")}

\* C11: the selection cell binds item exactly when exactly one returned item
\* has an id containing "Djibouti", and item is then that one; with zero or
\* more than one such id the cell fails with a ValueError, item stays unbound
\* and no asset has been opened.
C11_JustTheOne ==
    [][ At("hrea", 4) =>
          LET returned == ns["items"]
              hits == DjiboutiHits(returned)
          IN IF Cardinality(hits) = 1
             THEN /\ status' = "ok" /\ pc' = 5
                  /\ "item" \in DOMAIN ns'
                  /\ ns'["item"] = returned[CHOOSE i \in hits : TRUE]
             ELSE /\ status' = "failed" /\ pc' = 4
                  /\ Last(log').op = "raise" /\ Last(log').what = "ValueError"
                  /\ "item" \notin DOMAIN ns'
                  /\ opened' = <<>> ]_vars

\* the selection cell has failed on two returned items whose ids both contain
\* "Djibouti": item is unbound and nothing was opened
C11_Witness ==
    /\ nb = "hrea" /\ status = "failed" /\ pc = 4
    /\ Cardinality(DjiboutiHits(ns["items"])) = 2
    /\ "item" \notin DOMAIN ns
    /\ opened = <<>>

\* a value that is missing (NaN) or lies in the interval (0, 1]
InUnit(v) == v.k = "nan" \/ (v.k = "num" /\ 0 < v.n /\ v.n <= v.d)

\* the position that np.flip(..., axis=(1, 2)) moves to p
Mirror(p) == <<OvH + 1 - p[1], OvW + 1 - p[2]>>

\* C12: whatever the pixels of vv and vh (zeros included, hence vv / vh by
\* zero), every value of the composite data is NaN or in (0, 1]; the flipped
\* image has the same property, keeps the band order and holds at each
\* position the value data has at the mirrored position (the second clip
\* changes nothing).
C12_UnitInterval ==
    /\ (nb = "s1" /\ "data" \in DOMAIN ns) =>
          /\ DOMAIN ns["data"] = 1..3
          /\ \A k \in 1..3, p \in Pos : InUnit(ns["data"][k][p])
    /\ \A i \in 1..Len(shown) :
          (nb = "s1" /\ shown[i].cell = 12) =>
             LET image == shown[i].image
                 data == ns["data"]
             IN \A p \in Pos :
                  /\ image[p].red = data[1][Mirror(p)]
                  /\ image[p].green = data[2][Mirror(p)]
                  /\ image[p].blue = data[3][Mirror(p)]
                  /\ InUnit(image[p].red) /\ InUnit(image[p].green)
                  /\ InUnit(image[p].blue)

\* the flipped image has been drawn of a scene with a pixel where vv scales
\* above 1 and vh is 0 (vv / vh = inf) beside a pixel where both are 0
\* (0 / 0 = nan): the first shows as 1 in the red and blue bands at the
\* mirrored position, which held another value before the flip
C12_Witness ==
    /\ nb = "s1" /\ shown # <<>> /\ Last(shown).cell = 12
    /\ \E p \in Pos, q \in Pos :
         /\ ns["vv"][p].n > 600 /\ ns["vh"][p] = Zero
         /\ ns["vv"][q] = Zero /\ ns["vh"][q] = Zero
         /\ ns["data"][3][p] = One /\ ns["data"][3][q] = NaN
         /\ Last(shown).image[Mirror(p)].red = One
         /\ Last(shown).image[Mirror(p)].blue = One
         /\ Last(shown).image[Mirror(p)] # ImshowRGB(ns["data"])[Mirror(p)]

====
